---- MODULE Spec2Model ----
(***************************************************************************)
(* Model of the kdeclarative QML adapters.                                 *)
(*                                                                         *)
(*   SpecMap  : KDeclarative::ConfigPropertyMap (configpropertymap.cpp),   *)
(*              the bridge between a KCoreConfigSkeleton and a             *)
(*              QQmlPropertyMap.  Signals are delivered synchronously      *)
(*              (direct connections), so a handler can be entered while    *)
(*              another one is suspended in a call: the model keeps the    *)
(*              call stack and each action is one straight-line stretch    *)
(*              of a handler between two calls that can re-enter.          *)
(*   SpecKeys : KeySequenceHelper::isKeySequenceAvailable                  *)
(*              (keysequencehelper.cpp).                                   *)
(*   SpecI18n : TranslationContext::i18n, i18nc, i18np and i18ncp          *)
(*              (translationcontext.cpp), applied to arguments drawn by    *)
(*              the initial state.  A translated string is kept as what    *)
(*              KLocalizedString was given: domain, context, texts and the *)
(*              substituted arguments in their order.                      *)
(*                                                                         *)
(* The configuration object, the shortcut registries and the user are the  *)
(* environment.  KCoreConfigSkeleton is modelled by what the bridge relies *)
(* on: items hold in-memory values, save() writes them to the storage and  *)
(* may emit configChanged, read() loads them back from the storage.        *)
(* An item is identified by its key.  The write flags (d->notify) and the  *)
(* QJSValue unwrapping of updateValue change no state the bridge reads and *)
(* are left out.                                                           *)
(***************************************************************************)
EXTENDS Integers, Sequences, FiniteSets, TLC

\* ------------------------------------------------------------------ bounds
\* Deepest call stack the model follows (the code needs 4: configChanged
\* handler -> loadConfig -> writeConfigValue -> nested configChanged handler).
MaxDepth == 5
\* Most global shortcuts the registry of KGlobalAccel holds.
MaxGlobal == 2

\* ---------------------------------------------------------------- universe
Keys == {"a", "b"}
\* KCoreConfigSkeleton::items() order
KeyOrder == <<"a", "b">>
Values == {"v0", "v1"}
\* no item with that key / no such key in the map (an invalid QVariant)
NoItem == "none"
\* what an item makes of an invalid QVariant (default constructed value)
DefaultValue == "v0"
NoKey == "-"

VARIABLES
    phase,                \* "new" | "live" | "dead": life of the ConfigPropertyMap
    config,               \* d->config: "obj" | "null"
    items,                \* the configuration items: key -> value or NoItem
    stored,               \* what the configuration has persisted: key -> value
    immutable,            \* keys of the items that are immutable
    map,                  \* the QQmlPropertyMap: key -> value or NoItem
    updatingConfigValue,  \* d->updatingConfigValue
    autosave,             \* d->autosave
    stack,                \* call stack of the handler being run, top last
    event,                \* the top-level event being (or last) handled
    log,                  \* what the bridge did while handling it
    written,              \* some value was written through the map with autosave on
    fatal,                \* a null pointer was dereferenced and the process died
    answer                \* last result of isImmutable

mapVars == <<phase, config, items, stored, immutable, map, updatingConfigValue,
             autosave, stack, event, log, written, fatal, answer>>

VARIABLES
    platform,                   \* "win" | "darwin" | "other": Q_OS_WIN, Q_OS_DARWIN or neither
    checkAgainstShortcutTypes,  \* d->checkAgainstShortcutTypes, a set of flags
    standardShortcuts,          \* key sequences KStandardShortcut binds to a standard action
    globalShortcuts,            \* key sequences registered with KGlobalAccel by others
    call                        \* the last call of isKeySequenceAvailable

keyVars == <<platform, checkAgainstShortcutTypes, standardShortcuts, globalShortcuts, call>>

VARIABLES
    m_domain,   \* TranslationContext::m_domain
    request,    \* the arguments of the translation call
    reply       \* what the translation call returned and did

i18nVars == <<m_domain, request, reply>>

vars == <<mapVars, keyVars, i18nVars>>

\* ----------------------------------------------------------------- helpers
Entry(op, key, val, flag) == [op |-> op, key |-> key, val |-> val, flag |-> flag]

Event(kind, key, val, hadItem) == [kind |-> kind, key |-> key, val |-> val, hadItem |-> hadItem]

Frame(fn, pc, key, val, option, todo) ==
    [fn |-> fn, pc |-> pc, key |-> key, val |-> val, option |-> option, todo |-> todo]

Top == stack[Len(stack)]
Pop == SubSeq(stack, 1, Len(stack) - 1)
ReplaceTop(f) == Append(Pop, f)

RECURSIVE FilterKeys(_, _)
FilterKeys(seq, its) ==
    IF seq = <<>> THEN <<>>
    ELSE IF its[Head(seq)] # NoItem
         THEN <<Head(seq)>> \o FilterKeys(Tail(seq), its)
         ELSE FilterKeys(Tail(seq), its)

\* has the configuration an item of that key
HasItem(its, key) == its[key] # NoItem

\* items() losing all but its first item
ItemList_first(its) ==
    IF FilterKeys(KeyOrder, its) = <<>> THEN <<>> ELSE <<Head(FilterKeys(KeyOrder, its))>>
\* const auto &items = config.data()->items(): the list of the items, a copy,
\* which the loop of loadConfig goes through
ItemList(its) == FilterKeys(KeyOrder, its)

\* findItem() finding an item for every key
findItem_any(its, key) == TRUE
\* KConfigSkeletonItem *item = config.data()->findItem(key); if (item)
findItem(its, key) == its[key] # NoItem

\* insert() that replaces values but adds no key
insert_existing(m, key, value) == IF m[key] = NoItem THEN m ELSE [m EXCEPT ![key] = value]
\* q->insert(item->key(), item->property()): QQmlPropertyMap::insert adds the
\* key or replaces its value, and emits nothing
insert(m, key, value) == [m EXCEPT ![key] = value]

\* emission whatever the option / only for a value that differs
EmitsValueChanged_always(option, changed) == TRUE
EmitsValueChanged_ifChanged(option, changed) == option = "EmitValueChanged" /\ changed
\* if (option == EmitValueChanged): whether the value differs from the one the
\* map had plays no part
EmitsValueChanged(option, changed) == option = "EmitValueChanged"

\* the handler without its test of the flag
ReloadAllowed_always(updating) == TRUE
\* if (!d->updatingConfigValue)
ReloadAllowed(updating) == ~updating

\* save() and read() whatever autosave
AfterSetProperty_save(as) == "save"
\* if (autosave) { save(); read(); }
AfterSetProperty(as) == IF as THEN "save" ELSE "done"

\* KCoreConfigSkeleton::save(): every item is written to the storage
SaveItems(its, sto) == [k \in Keys |-> IF its[k] # NoItem THEN its[k] ELSE sto[k]]

\* KCoreConfigSkeleton::read(): every item is read back from the storage
ReadItems(its, sto) == [k \in Keys |-> IF its[k] # NoItem THEN sto[k] ELSE NoItem]

Idle == stack = <<>> /\ phase = "live" /\ ~fatal
Running == stack # <<>> /\ ~fatal

\* ------------------------------------------------- QString, KLocalizedString
\* number of the parameters param1 .. param10 of every translation call
NumParams == 10
\* QString(): the null string, which is not the empty string ""
Null == "<null>"
Texts == {Null, "", "msg"}
ParamValues == {"", "1", "2", "x"}
Domains == {"", "app"}

\* a QString returned by toString(), or the null string
NullString ==
    [null |-> TRUE, domain |-> "", context |-> Null, text |-> Null, plural |-> Null,
     form |-> "none", args |-> <<>>]

NoRequest ==
    [context |-> Null, text |-> Null, plural |-> Null, params |-> [k \in 1..NumParams |-> Null]]

NoReply == [fn |-> "none", warned |-> FALSE, catalog |-> FALSE, result |-> NullString]

\* the TranslationContext is not part of SpecMap and SpecKeys
I18nParked == m_domain = "" /\ request = NoRequest /\ reply = NoReply

\* no call of isKeySequenceAvailable yet
NoCall ==
    [made |-> FALSE, seq |-> <<>>, stealOk |-> FALSE, reassign |-> FALSE,
     types |-> {}, result |-> FALSE, ops |-> <<>>,
     global |-> "skipped", standard |-> "skipped",
     regBefore |-> {}, regAfter |-> {}]

\* the KeySequenceHelper is not part of SpecMap
KeysParked ==
    /\ I18nParked
    /\ platform = "other"
    /\ checkAgainstShortcutTypes = {"StandardShortcuts", "GlobalShortcuts"}
    /\ standardShortcuts = {} /\ globalShortcuts = {} /\ call = NoCall

\* -------------------------------------------------------------------- Init
InitMap ==
    /\ KeysParked
    /\ phase = "new"
    /\ config \in {"obj", "null"}
    /\ items \in [Keys -> Values \cup {NoItem}]
    /\ (config = "null" => items = [k \in Keys |-> NoItem])
    /\ stored \in [Keys -> Values]
    /\ \A k \in Keys : items[k] # NoItem => stored[k] = items[k]
    /\ immutable \in SUBSET {"a"}
    /\ map = [k \in Keys |-> NoItem]
    /\ updatingConfigValue = FALSE
    /\ autosave = TRUE
    /\ stack = <<>>
    /\ event = Event("none", NoKey, NoKey, FALSE)
    /\ log = <<>>
    /\ written = FALSE
    /\ fatal = FALSE
    /\ answer = FALSE

\* ------------------------------------------------- ConfigPropertyMap (ctor)
\* The two connections are made and loadConfig(DontEmitValueChanged) is called.
Construct ==
    /\ phase = "new"
    /\ phase' = "live"
    /\ event' = Event("construct", NoKey, NoKey, FALSE)
    /\ log' = <<>>
    /\ stack' = <<Frame("loadConfig", "enter", NoKey, NoKey, "DontEmitValueChanged", <<>>)>>
    /\ UNCHANGED <<config, items, stored, immutable, map, updatingConfigValue,
                   autosave, written, fatal, answer>>
    /\ UNCHANGED <<keyVars, i18nVars>>

\* ------------------------------------------------------------- loadConfig
\* if (!config) return; const auto &items = config.data()->items();
LoadConfigEnter ==
    /\ Running
    /\ Top.fn = "loadConfig" /\ Top.pc = "enter"
    /\ log' = Append(log, Entry("loadConfig", NoKey, NoKey, config = "obj"))
    /\ stack' = IF config = "null" THEN Pop
                ELSE ReplaceTop([Top EXCEPT !.pc = "loop", !.todo = ItemList(items)])
    /\ UNCHANGED <<phase, config, items, stored, immutable, map, updatingConfigValue,
                   autosave, event, written, fatal, answer>>
    /\ UNCHANGED <<keyVars, i18nVars>>

\* one turn of the loop: insert, and with EmitValueChanged the emission, which
\* calls the connected writeConfigValue before the loop goes on
LoadConfigLoop ==
    /\ Running
    /\ Top.fn = "loadConfig" /\ Top.pc = "loop"
    /\ IF Top.todo = <<>>
       THEN /\ stack' = Pop
            /\ UNCHANGED <<map, log>>
       ELSE LET k == Head(Top.todo)
                v == items[k]
                changed == map[k] # v
                rest == [Top EXCEPT !.todo = Tail(Top.todo)]
            IN /\ map' = insert(map, k, v)
               /\ IF EmitsValueChanged(Top.option, changed)
                  THEN /\ Len(stack) < MaxDepth
                       /\ log' = log \o <<Entry("insert", k, v, changed),
                                          Entry("valueChanged", k, v, changed)>>
                       /\ stack' = Append(ReplaceTop(rest),
                                          Frame("writeConfigValue", "enter", k, v, NoKey, <<>>))
                  ELSE /\ log' = Append(log, Entry("insert", k, v, changed))
                       /\ stack' = ReplaceTop(rest)
    /\ UNCHANGED <<phase, config, items, stored, immutable, updatingConfigValue,
                   autosave, event, written, fatal, answer>>
    /\ UNCHANGED <<keyVars, i18nVars>>

\* ------------------------------------------- the configChanged connection
\* [this] () { if (!d->updatingConfigValue) d->loadConfig(EmitValueChanged); }
OnConfigChanged ==
    /\ Running
    /\ Top.fn = "configChanged"
    /\ log' = Append(log, Entry("configChanged", NoKey, NoKey, ReloadAllowed(updatingConfigValue)))
    /\ stack' = IF ReloadAllowed(updatingConfigValue)
                THEN ReplaceTop(Frame("loadConfig", "enter", NoKey, NoKey, "EmitValueChanged", <<>>))
                ELSE Pop
    /\ UNCHANGED <<phase, config, items, stored, immutable, map, updatingConfigValue,
                   autosave, event, written, fatal, answer>>
    /\ UNCHANGED <<keyVars, i18nVars>>

\* ------------------------------------------------------- writeConfigValue
\* config.data()->findItem(key) with no test of config: on a null config the
\* call dereferences a null pointer (undefined behaviour): the process dies,
\* or the call comes back with no item.
WriteConfigValueEnter ==
    /\ Running
    /\ Top.fn = "writeConfigValue" /\ Top.pc = "enter"
    /\ IF config = "null"
       THEN /\ \E crash \in BOOLEAN :
                 /\ fatal' = crash
                 /\ log' = Append(log, Entry("nullDeref", Top.key, NoKey, crash))
            /\ stack' = Pop
            /\ UNCHANGED <<items, updatingConfigValue>>
       ELSE /\ fatal' = fatal
            /\ IF findItem(items, Top.key)
               THEN /\ items' = [items EXCEPT ![Top.key] = Top.val]
                    /\ log' = Append(log, Entry("setProperty", Top.key, Top.val, autosave))
                    /\ IF AfterSetProperty(autosave) = "save"
                       THEN /\ updatingConfigValue' = TRUE
                            /\ stack' = ReplaceTop([Top EXCEPT !.pc = "save"])
                       ELSE /\ updatingConfigValue' = FALSE
                            /\ stack' = Pop
               ELSE /\ stack' = Pop
                    /\ UNCHANGED <<items, log, updatingConfigValue>>
    /\ UNCHANGED <<phase, config, stored, immutable, map, autosave, event, written, answer>>
    /\ UNCHANGED <<keyVars, i18nVars>>

\* config.data()->save(), which may emit configChanged
WriteConfigValueSave ==
    /\ Running
    /\ Top.fn = "writeConfigValue" /\ Top.pc = "save"
    /\ stored' = SaveItems(items, stored)
    /\ \E emits \in BOOLEAN :
         /\ log' = Append(log, Entry("save", Top.key, NoKey, emits))
         /\ IF emits
            THEN /\ Len(stack) < MaxDepth
                 /\ stack' = Append(ReplaceTop([Top EXCEPT !.pc = "read"]),
                                    Frame("configChanged", "enter", NoKey, NoKey, NoKey, <<>>))
            ELSE stack' = ReplaceTop([Top EXCEPT !.pc = "read"])
    /\ UNCHANGED <<phase, config, items, immutable, map, updatingConfigValue,
                   autosave, event, written, fatal, answer>>
    /\ UNCHANGED <<keyVars, i18nVars>>

\* config.data()->read(); updatingConfigValue = false;
WriteConfigValueRead ==
    /\ Running
    /\ Top.fn = "writeConfigValue" /\ Top.pc = "read"
    /\ items' = ReadItems(items, stored)
    /\ log' = Append(log, Entry("read", Top.key, NoKey, FALSE))
    /\ updatingConfigValue' = FALSE
    /\ stack' = Pop
    /\ written' = (written \/ event.kind = "valueChanged")
    /\ UNCHANGED <<phase, config, stored, immutable, map, autosave, event, fatal, answer>>
    /\ UNCHANGED <<keyVars, i18nVars>>

\* ------------------------------------------------------------ writeConfig
\* if (!config) return; every item takes the map's value; then, with autosave,
\* updatingConfigValue = true before the save
WriteConfigEnter ==
    /\ Running
    /\ Top.fn = "writeConfig" /\ Top.pc = "enter"
    /\ IF config = "null"
       THEN /\ stack' = Pop
            /\ UNCHANGED <<items, log, updatingConfigValue>>
       ELSE /\ items' = [k \in Keys |->
                          IF items[k] = NoItem THEN NoItem
                          ELSE IF map[k] # NoItem THEN map[k] ELSE DefaultValue]
            /\ log' = Append(log, Entry("writeConfig", NoKey, NoKey, autosave))
            /\ IF autosave
               THEN /\ updatingConfigValue' = TRUE
                    /\ stack' = ReplaceTop([Top EXCEPT !.pc = "save"])
               ELSE /\ stack' = Pop
                    /\ UNCHANGED updatingConfigValue
    /\ UNCHANGED <<phase, config, stored, immutable, map, autosave, event,
                   written, fatal, answer>>
    /\ UNCHANGED <<keyVars, i18nVars>>

\* config.data()->save(), which may emit configChanged
WriteConfigSave ==
    /\ Running
    /\ Top.fn = "writeConfig" /\ Top.pc = "save"
    /\ stored' = SaveItems(items, stored)
    /\ \E emits \in BOOLEAN :
         /\ log' = Append(log, Entry("save", NoKey, NoKey, emits))
         /\ IF emits
            THEN /\ Len(stack) < MaxDepth
                 /\ stack' = Append(ReplaceTop([Top EXCEPT !.pc = "exit"]),
                                    Frame("configChanged", "enter", NoKey, NoKey, NoKey, <<>>))
            ELSE stack' = ReplaceTop([Top EXCEPT !.pc = "exit"])
    /\ UNCHANGED <<phase, config, items, immutable, map, updatingConfigValue,
                   autosave, event, written, fatal, answer>>
    /\ UNCHANGED <<keyVars, i18nVars>>

\* updatingConfigValue = false;
WriteConfigExit ==
    /\ Running
    /\ Top.fn = "writeConfig" /\ Top.pc = "exit"
    /\ updatingConfigValue' = FALSE
    /\ stack' = Pop
    /\ UNCHANGED <<phase, config, items, stored, immutable, map, autosave, event,
                   log, written, fatal, answer>>
    /\ UNCHANGED <<keyVars, i18nVars>>

\* ------------------------------------------------------ ~ConfigPropertyMap
\* if (d->autosave) d->writeConfig();
Destruct ==
    /\ Idle
    /\ phase' = "dead"
    /\ event' = Event("destruct", NoKey, NoKey, FALSE)
    /\ log' = <<>>
    /\ stack' = IF autosave
                THEN <<Frame("writeConfig", "enter", NoKey, NoKey, NoKey, <<>>)>>
                ELSE <<>>
    /\ UNCHANGED <<config, items, stored, immutable, map, updatingConfigValue,
                   autosave, written, fatal, answer>>
    /\ UNCHANGED <<keyVars, i18nVars>>

\* ------------------------------------------------------------ setAutosave
setAutosave(b) ==
    /\ Idle
    /\ autosave' = b
    /\ event' = Event("setAutosave", NoKey, NoKey, FALSE)
    /\ log' = <<>>
    /\ UNCHANGED <<phase, config, items, stored, immutable, map, updatingConfigValue,
                   stack, written, fatal, answer>>
    /\ UNCHANGED <<keyVars, i18nVars>>

\* ------------------------------------------------------------ isImmutable
\* d->config.data()->findItem(key) with no test of config (see writeConfigValue)
isImmutable(key) ==
    /\ Idle
    /\ event' = Event("isImmutable", key, NoKey, config = "obj" /\ HasItem(items, key))
    /\ IF config = "null"
       THEN \E crash \in BOOLEAN :
              /\ fatal' = crash
              /\ log' = <<Entry("nullDeref", key, NoKey, crash)>>
              /\ answer' = FALSE
       ELSE /\ fatal' = fatal
            /\ log' = <<>>
            /\ answer' = (findItem(items, key) /\ key \in immutable)
    /\ UNCHANGED <<phase, config, items, stored, immutable, map, updatingConfigValue,
                   autosave, stack, written>>
    /\ UNCHANGED <<keyVars, i18nVars>>

\* ------------------------------------------------------------ environment
\* QML assigns a property of the map: QQmlPropertyMap stores the value and
\* emits valueChanged, which is connected to writeConfigValue.  QML can only
\* assign keys the map has.
QmlSetValue(key, value) ==
    /\ Idle
    /\ map[key] # NoItem
    /\ map' = [map EXCEPT ![key] = value]
    /\ event' = Event("valueChanged", key, value, config = "obj" /\ HasItem(items, key))
    /\ log' = <<>>
    /\ stack' = <<Frame("writeConfigValue", "enter", key, value, NoKey, <<>>)>>
    /\ UNCHANGED <<phase, config, items, stored, immutable, updatingConfigValue,
                   autosave, written, fatal, answer>>
    /\ UNCHANGED <<keyVars, i18nVars>>

\* Somebody else sets an item and saves the configuration object, which emits
\* configChanged.
ExternalConfigChanged(key, value) ==
    /\ Idle
    /\ config = "obj"
    /\ LET its == IF HasItem(items, key) THEN [items EXCEPT ![key] = value] ELSE items
       IN /\ items' = its
          /\ stored' = SaveItems(its, stored)
    /\ event' = Event("configChanged", key, value, HasItem(items, key))
    /\ log' = <<>>
    /\ stack' = <<Frame("configChanged", "enter", NoKey, NoKey, NoKey, <<>>)>>
    /\ UNCHANGED <<phase, config, immutable, map, updatingConfigValue, autosave,
                   written, fatal, answer>>
    /\ UNCHANGED <<keyVars, i18nVars>>

\* KCoreConfigSkeleton::addItem
AddItem(key, value) ==
    /\ Idle
    /\ config = "obj"
    /\ ~HasItem(items, key)
    /\ items' = [items EXCEPT ![key] = value]
    /\ event' = Event("addItem", key, value, FALSE)
    /\ log' = <<>>
    /\ UNCHANGED <<phase, config, stored, immutable, map, updatingConfigValue,
                   autosave, stack, written, fatal, answer>>
    /\ UNCHANGED <<keyVars, i18nVars>>

\* KCoreConfigSkeleton::removeItem
RemoveItem(key) ==
    /\ Idle
    /\ config = "obj"
    /\ HasItem(items, key)
    /\ items' = [items EXCEPT ![key] = NoItem]
    /\ event' = Event("removeItem", key, NoKey, TRUE)
    /\ log' = <<>>
    /\ UNCHANGED <<phase, config, stored, immutable, map, updatingConfigValue,
                   autosave, stack, written, fatal, answer>>
    /\ UNCHANGED <<keyVars, i18nVars>>

\* The configuration object is deleted: the QPointer becomes null.
DestroyConfig ==
    /\ Idle
    /\ config = "obj"
    /\ config' = "null"
    /\ items' = [k \in Keys |-> NoItem]
    /\ event' = Event("destroyConfig", NoKey, NoKey, FALSE)
    /\ log' = <<>>
    /\ UNCHANGED <<phase, stored, immutable, map, updatingConfigValue, autosave,
                   stack, written, fatal, answer>>
    /\ UNCHANGED <<keyVars, i18nVars>>

\* ================================================== KeySequenceHelper
Chords == {"Ctrl+A", "F12"}
\* QKeySequence: the chords typed one after the other, none for the empty one
KeySequences == {<<>>, <<"Ctrl+A">>, <<"F12">>, <<"Ctrl+A", "F12">>}

\* big has small as a run of consecutive chords and is longer
Contains(big, small) ==
    /\ Len(small) < Len(big)
    /\ \E off \in 0..(Len(big) - Len(small)) :
          \A i \in 1..Len(small) : big[off + i] = small[i]

\* isKeySequenceAvailable without its test for the empty sequence
isEmpty_never(seq) == FALSE
\* keySequence.isEmpty()
isEmpty(seq) == seq = <<>>

\* QFlags::testFlag
testFlag(types, flag) == flag \in types

\* KGlobalAccel::globalShortcutsByKey(seq, type)
globalShortcutsByKey(reg, seq, type) ==
    CASE type = "Equal"    -> {s \in reg : s = seq}
      [] type = "Shadows"  -> {s \in reg : Contains(s, seq)}
      [] type = "Shadowed" -> {s \in reg : Contains(seq, s)}

\* KGlobalAccel::isGlobalShortcutAvailable(seq, QString())
isGlobalShortcutAvailable(reg, seq) ==
    /\ globalShortcutsByKey(reg, seq, "Equal") = {}
    /\ globalShortcutsByKey(reg, seq, "Shadows") = {}
    /\ globalShortcutsByKey(reg, seq, "Shadowed") = {}

\* KGlobalAccel::stealShortcutSystemwide(seq)
stealShortcutSystemwide(reg, seq) == reg \ {seq}

\* KStandardShortcut::find(seq) != KStandardShortcut::AccelNone
find(std, seq) == seq \in std

\* KMessageBox::warningContinueCancel(...) == KMessageBox::Continue
stealStandardShortcut(reassign) == reassign

Outcome(conflict, ops, reg) == [conflict |-> conflict, ops |-> ops, reg |-> reg]

\* the check that offers to steal a direct collision before it looks at the
\* shadowing
conflictWithGlobalShortcuts_promptFirst(plat, types, reg, seq, stealOk) ==
    IF plat # "other" \/ ~("GlobalShortcuts" \in types)
    THEN [conflict |-> FALSE, ops |-> <<>>, reg |-> reg]
    ELSE IF seq \in reg
    THEN IF stealOk
         THEN [conflict |-> FALSE,
               ops |-> <<"isGlobalShortcutAvailable", "globalShortcutsByKey",
                         "promptStealShortcutSystemwide", "stealShortcutSystemwide">>,
               reg |-> reg \ {seq}]
         ELSE [conflict |-> TRUE,
               ops |-> <<"isGlobalShortcutAvailable", "globalShortcutsByKey",
                         "promptStealShortcutSystemwide">>,
               reg |-> reg]
    ELSE IF \E s \in reg : Contains(s, seq) \/ Contains(seq, s)
    THEN [conflict |-> TRUE,
          ops |-> <<"isGlobalShortcutAvailable", "globalShortcutsByKey", "error:shadowing">>,
          reg |-> reg]
    ELSE [conflict |-> FALSE,
          ops |-> <<"isGlobalShortcutAvailable", "stealShortcutSystemwide">>,
          reg |-> reg]
\* KeySequenceHelperPrivate::conflictWithGlobalShortcuts, one branch for each
\* platform the preprocessor selects
conflictWithGlobalShortcuts(plat, types, reg, seq, stealOk) ==
    IF plat = "win"
    THEN Outcome(FALSE,
                 IF \E i \in DOMAIN seq : seq[i] = "F12" THEN <<"error:reserved">> ELSE <<>>,
                 reg)
    ELSE IF plat = "darwin"
    THEN Outcome(FALSE, <<>>, reg)
    ELSE IF ~("GlobalShortcuts" \in types)
    THEN Outcome(FALSE, <<>>, reg)
    ELSE LET avail    == isGlobalShortcutAvailable(reg, seq)
             others   == IF avail THEN {} ELSE globalShortcutsByKey(reg, seq, "Equal")
             shadow   == IF avail THEN {} ELSE globalShortcutsByKey(reg, seq, "Shadows")
             shadowed == IF avail THEN {} ELSE globalShortcutsByKey(reg, seq, "Shadowed")
             lookups  == IF avail THEN <<"isGlobalShortcutAvailable">>
                         ELSE <<"isGlobalShortcutAvailable", "globalShortcutsByKey">>
         IN IF shadow # {} \/ shadowed # {}
            THEN Outcome(TRUE, lookups \o <<"error:shadowing">>, reg)
            ELSE IF others # {} /\ ~stealOk
            THEN Outcome(TRUE, lookups \o <<"promptStealShortcutSystemwide">>, reg)
            ELSE Outcome(FALSE,
                         lookups
                           \o (IF others # {} THEN <<"promptStealShortcutSystemwide">> ELSE <<>>)
                           \o <<"stealShortcutSystemwide">>,
                         stealShortcutSystemwide(reg, seq))

\* the check that takes every answer of the user for an approval
conflictWithStandardShortcuts_never(types, std, seq, reassign) ==
    Outcome(FALSE, <<"find">>, {})
\* KeySequenceHelperPrivate::conflictWithStandardShortcuts; the prompt of
\* stealStandardShortcut is shown only when find() has found a standard action
conflictWithStandardShortcuts(types, std, seq, reassign) ==
    IF ~("StandardShortcuts" \in types)
    THEN Outcome(FALSE, <<>>, {})
    ELSE IF find(std, seq) /\ ~stealStandardShortcut(reassign)
    THEN Outcome(TRUE, <<"find", "warningContinueCancel">>, {})
    ELSE Outcome(FALSE,
                 IF find(std, seq) THEN <<"find", "warningContinueCancel">> ELSE <<"find">>,
                 {})

Skipped == Outcome(FALSE, <<>>, {})

\* KeySequenceHelper::isKeySequenceAvailable: the result and what the call
\* did.  Both checks run when both are selected: conflict |= has no short cut.
isKeySequenceAvailable(plat, types, std, reg, seq, stealOk, reassign) ==
    IF isEmpty(seq)
    THEN [result |-> TRUE, ops |-> <<>>, reg |-> reg, global |-> "skipped", standard |-> "skipped"]
    ELSE LET g == IF testFlag(types, "GlobalShortcuts")
                  THEN conflictWithGlobalShortcuts(plat, types, reg, seq, stealOk)
                  ELSE [Skipped EXCEPT !.reg = reg]
             s == IF testFlag(types, "StandardShortcuts")
                  THEN conflictWithStandardShortcuts(types, std, seq, reassign)
                  ELSE Skipped
         IN [result   |-> ~(g.conflict \/ s.conflict),
             ops      |-> g.ops \o s.ops,
             reg      |-> g.reg,
             global   |-> IF ~testFlag(types, "GlobalShortcuts") THEN "skipped"
                          ELSE IF g.conflict THEN "conflict" ELSE "free",
             standard |-> IF ~testFlag(types, "StandardShortcuts") THEN "skipped"
                          ELSE IF s.conflict THEN "conflict" ELSE "free"]

\* the ConfigPropertyMap is not part of SpecKeys
MapParked ==
    /\ phase = "new" /\ config = "null"
    /\ items = [k \in Keys |-> NoItem] /\ stored = [k \in Keys |-> DefaultValue]
    /\ immutable = {} /\ map = [k \in Keys |-> NoItem]
    /\ updatingConfigValue = FALSE /\ autosave = TRUE /\ stack = <<>>
    /\ event = Event("none", NoKey, NoKey, FALSE) /\ log = <<>>
    /\ written = FALSE /\ fatal = FALSE /\ answer = FALSE

\* KeySequenceHelperPrivate::KeySequenceHelperPrivate
InitKeys ==
    /\ MapParked
    /\ I18nParked
    /\ platform \in {"win", "darwin", "other"}
    /\ checkAgainstShortcutTypes = {"StandardShortcuts", "GlobalShortcuts"}
    /\ standardShortcuts \in SUBSET [1..1 -> Chords]
    /\ globalShortcuts = {}
    /\ call = NoCall

\* a call of isKeySequenceAvailable with the answers the user gives to the
\* prompts it shows
CallIsKeySequenceAvailable(seq, stealOk, reassign) ==
    LET r == isKeySequenceAvailable(platform, checkAgainstShortcutTypes, standardShortcuts,
                                    globalShortcuts, seq, stealOk, reassign)
    IN /\ globalShortcuts' = r.reg
       /\ call' = [made |-> TRUE, seq |-> seq, stealOk |-> stealOk, reassign |-> reassign,
                   types |-> checkAgainstShortcutTypes,
                   result |-> r.result, ops |-> r.ops,
                   global |-> r.global, standard |-> r.standard,
                   regBefore |-> globalShortcuts, regAfter |-> r.reg]
       /\ UNCHANGED <<platform, checkAgainstShortcutTypes, standardShortcuts>>
       /\ UNCHANGED <<mapVars, i18nVars>>

\* KeySequenceHelper::setCheckAgainstShortcutTypes
setCheckAgainstShortcutTypes(types) ==
    /\ checkAgainstShortcutTypes' = types
    /\ UNCHANGED <<platform, standardShortcuts, globalShortcuts, call>>
    /\ UNCHANGED <<mapVars, i18nVars>>

\* another application registers a global shortcut
RegisterGlobalShortcut(seq) ==
    /\ seq # <<>>
    /\ seq \notin globalShortcuts
    /\ Cardinality(globalShortcuts) < MaxGlobal
    /\ globalShortcuts' = globalShortcuts \cup {seq}
    /\ UNCHANGED <<platform, checkAgainstShortcutTypes, standardShortcuts, call>>
    /\ UNCHANGED <<mapVars, i18nVars>>

NextKeys ==
    \/ \E seq \in KeySequences, stealOk \in BOOLEAN, reassign \in BOOLEAN :
         CallIsKeySequenceAvailable(seq, stealOk, reassign)
    \/ \E types \in SUBSET {"StandardShortcuts", "GlobalShortcuts"} :
         setCheckAgainstShortcutTypes(types)
    \/ \E seq \in KeySequences : RegisterGlobalShortcut(seq)

SpecKeys == InitKeys /\ [][NextKeys]_vars

\* ------------------------------------------------------------------- Next
HandlerStep ==
    \/ LoadConfigEnter
    \/ LoadConfigLoop
    \/ OnConfigChanged
    \/ WriteConfigValueEnter
    \/ WriteConfigValueSave
    \/ WriteConfigValueRead
    \/ WriteConfigEnter
    \/ WriteConfigSave
    \/ WriteConfigExit

NextMap ==
    \/ Construct
    \/ HandlerStep
    \/ Destruct
    \/ \E b \in BOOLEAN : setAutosave(b)
    \/ \E k \in Keys : isImmutable(k)
    \/ \E k \in Keys, v \in Values : QmlSetValue(k, v)
    \/ \E k \in Keys, v \in Values : ExternalConfigChanged(k, v)
    \/ \E k \in Keys, v \in Values : AddItem(k, v)
    \/ \E k \in Keys : RemoveItem(k)
    \/ DestroyConfig

SpecMap == InitMap /\ [][NextMap]_vars

\* A handler runs to completion: the calls are synchronous, and nothing else
\* runs on the thread while a handler is active.
SpecMapFair == SpecMap /\ WF_vars(HandlerStep)

TypeOKMap ==
    /\ phase \in {"new", "live", "dead"}
    /\ config \in {"obj", "null"}
    /\ items \in [Keys -> Values \cup {NoItem}]
    /\ stored \in [Keys -> Values]
    /\ map \in [Keys -> Values \cup {NoItem}]
    /\ updatingConfigValue \in BOOLEAN
    /\ autosave \in BOOLEAN
    /\ Len(stack) <= MaxDepth
    /\ fatal \in BOOLEAN

\* ================================================= TranslationContext
\* QString::isNull
isNull(s) == s = Null

\* QString::toInt(&ok): ok
toIntOk(s) == s \in {"1", "2"}

\* an argument given to KLocalizedString::subs: a QString, or an int
StrArg(s) == [kind |-> "str", text |-> s]
IntArg(s) == [kind |-> "int", text |-> s]

\* ki18nd, ki18ndc, ki18ndp, ki18ndcp
ki18nd(domain, message) ==
    [domain |-> domain, context |-> Null, text |-> message, plural |-> Null, args |-> <<>>]
ki18ndc(domain, context, message) ==
    [domain |-> domain, context |-> context, text |-> message, plural |-> Null, args |-> <<>>]
ki18ndp(domain, singular, plural) ==
    [domain |-> domain, context |-> Null, text |-> singular, plural |-> plural, args |-> <<>>]
ki18ndcp(domain, context, singular, plural) ==
    [domain |-> domain, context |-> context, text |-> singular, plural |-> plural, args |-> <<>>]

\* KLocalizedString::subs
subs(tr, arg) == [tr EXCEPT !.args = Append(@, arg)]

\* KLocalizedString::toString: the catalog of the domain is looked up with the
\* context and the texts, the plural form is chosen by the first int argument,
\* and the arguments replace the placeholders in their order
toString(tr) ==
    [null |-> FALSE, domain |-> tr.domain, context |-> tr.context,
     text |-> tr.text, plural |-> tr.plural,
     form |-> IF tr.plural = Null THEN "message"
              ELSE IF \E i \in DOMAIN tr.args : tr.args[i].kind = "int"
              THEN LET first == CHOOSE i \in DOMAIN tr.args :
                                  /\ tr.args[i].kind = "int"
                                  /\ \A j \in 1..(i - 1) : tr.args[j].kind # "int"
                   IN IF tr.args[first].text = "1" THEN "singular" ELSE "plural"
              ELSE "unnumbered",
     args |-> tr.args]

\* if (!paramN.isNull()) trMessage = trMessage.subs(paramN), from param i on
RECURSIVE SubsStrings(_, _, _)
SubsStrings(tr, params, i) ==
    IF i > NumParams THEN tr
    ELSE SubsStrings(IF isNull(params[i]) THEN tr ELSE subs(tr, StrArg(params[i])), params, i + 1)

\* param1 of i18np and i18ncp: subs(num) when param1.toInt succeeds
SubsNumber(tr, param1) ==
    IF isNull(param1) THEN tr
    ELSE IF toIntOk(param1) THEN subs(tr, IntArg(param1))
    ELSE subs(tr, StrArg(param1))

Warned(fn) == [fn |-> fn, warned |-> TRUE, catalog |-> FALSE, result |-> NullString]
Translated(fn, tr) == [fn |-> fn, warned |-> FALSE, catalog |-> TRUE, result |-> toString(tr)]

\* TranslationContext::i18n
i18n(domain, message, params) ==
    IF isNull(message) THEN Warned("i18n")
    ELSE Translated("i18n", SubsStrings(ki18nd(domain, message), params, 1))

\* i18nc that tests the message only
i18nc_messageOnly(domain, context, message, params) ==
    IF isNull(message) THEN Warned("i18nc")
    ELSE Translated("i18nc", SubsStrings(ki18ndc(domain, context, message), params, 1))
\* TranslationContext::i18nc
i18nc(domain, context, message, params) ==
    IF isNull(context) \/ isNull(message) THEN Warned("i18nc")
    ELSE Translated("i18nc", SubsStrings(ki18ndc(domain, context, message), params, 1))

\* TranslationContext::i18np
i18np(domain, singular, plural, params) ==
    IF isNull(singular) \/ isNull(plural) THEN Warned("i18np")
    ELSE Translated("i18np",
                    SubsStrings(SubsNumber(ki18ndp(domain, singular, plural), params[1]),
                                params, 2))

\* TranslationContext::i18ncp
i18ncp(domain, context, singular, plural, params) ==
    IF isNull(context) \/ isNull(singular) \/ isNull(plural) THEN Warned("i18ncp")
    ELSE Translated("i18ncp",
                    SubsStrings(SubsNumber(ki18ndcp(domain, context, singular, plural), params[1]),
                                params, 2))

\* the parameter lists of the calls: at most two parameters are given, in any
\* two places
ParamVectors ==
    {[k \in 1..NumParams |-> IF k = i THEN v ELSE IF k = j THEN w ELSE Null] :
        i \in 1..NumParams, j \in 1..NumParams,
        v \in ParamValues \cup {Null}, w \in ParamValues \cup {Null}}

\* TranslationContext::TranslationContext, and the arguments of the call to come
InitI18n ==
    /\ MapParked
    /\ platform = "other"
    /\ checkAgainstShortcutTypes = {"StandardShortcuts", "GlobalShortcuts"}
    /\ standardShortcuts = {} /\ globalShortcuts = {} /\ call = NoCall
    /\ m_domain = ""
    /\ request \in [context : Texts, text : Texts, plural : Texts, params : ParamVectors]
    /\ reply = NoReply

CallI18n ==
    /\ reply.fn = "none"
    /\ reply' = i18n(m_domain, request.text, request.params)
    /\ UNCHANGED <<m_domain, request, mapVars, keyVars>>

CallI18nc ==
    /\ reply.fn = "none"
    /\ reply' = i18nc(m_domain, request.context, request.text, request.params)
    /\ UNCHANGED <<m_domain, request, mapVars, keyVars>>

CallI18np ==
    /\ reply.fn = "none"
    /\ reply' = i18np(m_domain, request.text, request.plural, request.params)
    /\ UNCHANGED <<m_domain, request, mapVars, keyVars>>

CallI18ncp ==
    /\ reply.fn = "none"
    /\ reply' = i18ncp(m_domain, request.context, request.text, request.plural, request.params)
    /\ UNCHANGED <<m_domain, request, mapVars, keyVars>>

\* TranslationContext::setDomain
setDomain(domain) ==
    /\ m_domain' = (IF m_domain = domain THEN m_domain ELSE domain)
    /\ UNCHANGED <<request, reply, mapVars, keyVars>>

NextI18n ==
    \/ CallI18n
    \/ CallI18nc
    \/ CallI18np
    \/ CallI18ncp
    \/ \E d \in Domains : setDomain(d)

SpecI18n == InitI18n /\ [][NextI18n]_vars

\* ===================================================== observations
HasOp(op) == \E i \in DOMAIN log : log[i].op = op
Count(op, key) == Cardinality({i \in DOMAIN log : log[i].op = op /\ log[i].key = key})
CountOp(op) == Cardinality({i \in DOMAIN log : log[i].op = op})
IsPersistOp(e) == e.op \in {"save", "read"}
PersistOps == [i \in DOMAIN SelectSeq(log, IsPersistOp) |-> SelectSeq(log, IsPersistOp)[i].op]
\* the handling of the event of that kind is over
Done(kind) == event.kind = kind /\ stack = <<>> /\ ~fatal
MapKeys == {k \in Keys : map[k] # NoItem}
ItemKeys == {k \in Keys : items[k] # NoItem}

\* ============================================================ claims
\* C1: constructing the map over a configuration object loads it: afterwards
\* the map has exactly the keys of the items, each with its item's value, and
\* the construction emits no valueChanged, so it writes nothing back and
\* saves nothing.
C1_InitialLoad ==
    event.kind = "construct" =>
        /\ \A i \in DOMAIN log : log[i].op \notin {"valueChanged", "setProperty", "save", "read"}
        /\ (stack = <<>> /\ config = "obj" => \A k \in Keys : map[k] = items[k])

C1_Witness ==
    /\ Done("construct") /\ config = "obj"
    /\ map["a"] = "v1" /\ map["b"] = NoItem
    /\ CountOp("insert") = 1

\* C2: a value v assigned to the key k of the map, k having an item, sets the
\* item to v; with autosave the configuration is then saved and after that
\* read, and without autosave it is neither saved nor read.
C2_WriteBack ==
    /\ (event.kind = "valueChanged" /\ log # <<>> /\ log[Len(log)].op = "setProperty") =>
          items[event.key] = event.val
    /\ (Done("valueChanged") /\ event.hadItem) =>
        /\ log # <<>>
        /\ log[1] = Entry("setProperty", event.key, event.val, autosave)
        /\ CountOp("setProperty") = 1
        /\ PersistOps = (IF autosave THEN <<"save", "read">> ELSE <<>>)

C2_Witness ==
    /\ Done("valueChanged") /\ event.hadItem
    /\ ~autosave
    /\ items[event.key] = "v1" /\ stored[event.key] = "v0"

\* C3: a configChanged the configuration emits while the bridge writes to it
\* (in writeConfigValue, or in the save of writeConfig) starts no reload:
\* loadConfig never runs above a write of the bridge, the handler that follows
\* a save of the bridge reloads nothing, and handling an assignment to the map
\* or the destruction neither loads nor emits valueChanged.
C3_NoReloadOnOwnWrite ==
    /\ \A i, j \in DOMAIN stack :
         (i < j /\ stack[i].fn \in {"writeConfigValue", "writeConfig"}) => stack[j].fn # "loadConfig"
    /\ \A i \in DOMAIN log :
         (i > 1 /\ log[i].op = "configChanged" /\ log[i-1].op = "save") => ~log[i].flag
    /\ event.kind \in {"valueChanged", "destruct"} => ~HasOp("loadConfig") /\ ~HasOp("valueChanged")

C3_Witness ==
    /\ Done("valueChanged")
    /\ HasOp("configChanged")
    /\ HasOp("read")

\* C4 (safety part): when the handling of an external configChanged is over,
\* loadConfig has run once, every item's key has its item's value in the map,
\* one valueChanged was emitted for each item's key and none for another key,
\* and updatingConfigValue is false.
C4_ReloadDone ==
    Done("configChanged") =>
        /\ CountOp("loadConfig") = 1
        /\ \A k \in Keys :
             IF items[k] # NoItem
             THEN map[k] = items[k] /\ Count("valueChanged", k) = 1 /\ Count("insert", k) = 1
             ELSE Count("valueChanged", k) = 0
        /\ ~updatingConfigValue

\* C4: an external configChanged that arrives while the bridge is not writing
\* causes one reload pass (C4_ReloadDone), and its handling terminates with
\* updatingConfigValue false: the write-backs of the pass start no further
\* reload.
C4_ReloadOnce ==
    /\ []C4_ReloadDone
    /\ [](event.kind = "configChanged" => <>(stack = <<>> /\ ~updatingConfigValue))

C4_Witness ==
    /\ Done("configChanged")
    /\ ItemKeys = Keys
    /\ CountOp("valueChanged") = 2
    /\ CountOp("save") = 2
    /\ \E i \in DOMAIN log : log[i].op = "configChanged" /\ i > 1

\* C5 as stated: after a write through the map with autosave, a reload emits no
\* valueChanged for a key whose value the reload leaves as it was.
C5_Original ==
    (written /\ event.kind = "configChanged") =>
        \A i \in DOMAIN log : log[i].op = "valueChanged" => log[i].flag

\* C5 amended: after a write through the map with autosave, the handling of
\* the write itself emits no valueChanged, and a later external reload emits
\* one valueChanged for every item's key, also for a key whose value the
\* reload leaves as it was.
C5_ReloadNotifiesEveryKey ==
    /\ (event.kind = "valueChanged" => ~HasOp("valueChanged"))
    /\ (written /\ Done("configChanged")) =>
          \A k \in ItemKeys :
             \E i \in DOMAIN log :
                /\ log[i] = Entry("valueChanged", k, map[k], log[i].flag)
                /\ \A j \in DOMAIN log : (log[j].op = "valueChanged" /\ log[j].key = k) => j = i

C5_Witness ==
    /\ written /\ Done("configChanged")
    /\ \E i \in DOMAIN log : log[i].op = "valueChanged" /\ ~log[i].flag

\* C6 as stated: after any load the keys of the map are the keys of the items.
C6_Original ==
    ((Done("construct") \/ Done("configChanged")) /\ config = "obj") => MapKeys = ItemKeys

\* C6 amended: after any load every item has its key in the map, items added
\* since the last load included; the key of an item removed from the
\* configuration stays in the map.
C6_ItemKeysInMap ==
    /\ [](((Done("construct") \/ Done("configChanged")) /\ config = "obj") => ItemKeys \subseteq MapKeys)
    /\ [][\A k \in Keys : map[k] # NoItem => map'[k] # NoItem]_vars

C6_Witness ==
    /\ Done("configChanged") /\ config = "obj"
    /\ ItemKeys = {"b"} /\ MapKeys = {"a", "b"}

\* C7: without a configuration object no operation of the bridge is fatal, and
\* none loads or saves.
C7_NullConfigHarmless ==
    config = "null" =>
        /\ ~fatal
        /\ \A i \in DOMAIN log : log[i].op \notin {"nullDeref", "insert", "save", "read", "setProperty"}

\* C8: a value assigned to a key of the map that has no item is ignored: no
\* item is set, nothing is saved or read, updatingConfigValue stays false and
\* nothing fails.
C8_MissingItemIgnored ==
    (event.kind = "valueChanged" /\ ~event.hadItem /\ config = "obj") =>
        /\ log = <<>>
        /\ items[event.key] = NoItem
        /\ ~updatingConfigValue
        /\ ~fatal
        /\ Len(stack) <= 1

C8_Witness ==
    /\ event.kind = "valueChanged" /\ ~event.hadItem /\ config = "obj"
    /\ stack = <<>>
    /\ map[event.key] = event.val

\* C9: isKeySequenceAvailable is true of the empty key sequence whatever the
\* selected checks and the registries hold, and the call asks no registry,
\* shows no dialog and steals no shortcut.
C9_EmptyAvailable ==
    (call.made /\ call.seq = <<>>) => (call.result /\ call.ops = <<>>)

C9_Witness ==
    /\ call.made /\ call.seq = <<>> /\ call.result
    /\ call.types = {"StandardShortcuts", "GlobalShortcuts"}
    /\ globalShortcuts # {}
    /\ standardShortcuts # {}

\* C10: with the check against the standard shortcuts selected, a key sequence
\* that is not empty and is the one of a standard shortcut is not available
\* when the user does not approve the reassignment; the check against the
\* standard shortcuts finds no conflict only when the sequence is no standard
\* shortcut or the user approved.
C10_StandardShortcutNeedsApproval ==
    (call.made /\ call.seq # <<>> /\ "StandardShortcuts" \in call.types) =>
        /\ (call.seq \in standardShortcuts /\ ~call.reassign) => ~call.result
        /\ call.standard = "free" => (call.seq \notin standardShortcuts \/ call.reassign)

C10_Witness ==
    /\ call.made /\ call.seq \in standardShortcuts /\ ~call.reassign
    /\ "StandardShortcuts" \in call.types
    /\ call.global # "conflict"
    /\ ~call.result

\* what the last call of isKeySequenceAvailable found in the registry of the
\* global shortcuts, and what it did
HasCallOp(op) == \E i \in DOMAIN call.ops : call.ops[i] = op
CallSteals == HasCallOp("stealShortcutSystemwide")
CallCollides == call.seq \in call.regBefore
CallShadowing ==
    \E s \in call.regBefore : Contains(s, call.seq) \/ Contains(call.seq, s)
GlobalCheckRan ==
    /\ call.made /\ call.seq # <<>>
    /\ platform = "other"
    /\ "GlobalShortcuts" \in call.types

\* C11: where the check against the global shortcuts is compiled in and
\* selected, and the sequence is not available globally: shadowing, in either
\* direction, ends the check with the error message and a conflict, without the
\* prompt to steal and without a steal, a direct collision or not; with no
\* shadowing, a direct collision brings the prompt, a refusal is a conflict
\* with no steal, and an approval steals the shortcut in the same call, before
\* it returns, with no conflict.
C11_GlobalConflict ==
    (GlobalCheckRan /\ (CallCollides \/ CallShadowing)) =>
        /\ HasCallOp("globalShortcutsByKey")
        /\ CallShadowing =>
             /\ call.global = "conflict"
             /\ HasCallOp("error:shadowing")
             /\ ~HasCallOp("promptStealShortcutSystemwide")
             /\ ~CallSteals
             /\ call.regAfter = call.regBefore
        /\ (~CallShadowing /\ ~call.stealOk) =>
             /\ call.global = "conflict"
             /\ HasCallOp("promptStealShortcutSystemwide")
             /\ ~HasCallOp("error:shadowing")
             /\ ~CallSteals
             /\ call.regAfter = call.regBefore
        /\ (~CallShadowing /\ call.stealOk) =>
             /\ call.global = "free"
             /\ ~HasCallOp("error:shadowing")
             /\ \E i, j \in DOMAIN call.ops :
                  /\ i < j
                  /\ call.ops[i] = "promptStealShortcutSystemwide"
                  /\ call.ops[j] = "stealShortcutSystemwide"
             /\ call.regAfter = call.regBefore \ {call.seq}

C11_Witness ==
    /\ GlobalCheckRan
    /\ CallCollides /\ CallShadowing /\ call.stealOk
    /\ call.global = "conflict"
    /\ call.seq \in globalShortcuts

\* C13: a call of isKeySequenceAvailable that returns false has stolen no
\* global shortcut: stealShortcutSystemwide is called only in a call that
\* returns true.
C13_NoStealWhenRejected ==
    (call.made /\ ~call.result) => (~CallSteals /\ call.regAfter = call.regBefore)

\* the texts the call needs, and whether one of them is null
MissingText ==
    CASE reply.fn = "i18n"   -> request.text = Null
      [] reply.fn = "i18nc"  -> request.context = Null \/ request.text = Null
      [] reply.fn = "i18np"  -> request.text = Null \/ request.plural = Null
      [] reply.fn = "i18ncp" -> request.context = Null \/ request.text = Null \/ request.plural = Null
      [] OTHER -> FALSE
IsGiven(p) == p # Null
GivenParams == SelectSeq(request.params, IsGiven)

\* C12: a translation call with one of its needed texts null (the message of
\* i18n, the context or the message of i18nc, the singular or the plural of
\* i18np, the context, the singular or the plural of i18ncp) returns the null
\* string after a warning and does not look into the catalog; with all of
\* them given, the parameters that are not null are substituted in the order
\* they were given.
C12_MissingTextWarns ==
    reply.fn # "none" =>
        IF MissingText
        THEN reply.result.null /\ reply.warned /\ ~reply.catalog
        ELSE /\ ~reply.result.null /\ ~reply.warned /\ reply.catalog
             /\ Len(reply.result.args) = Len(GivenParams)
             /\ \A i \in DOMAIN GivenParams : reply.result.args[i].text = GivenParams[i]

C12_Witness ==
    /\ reply.fn = "i18nc"
    /\ request.context = Null /\ request.text = "msg"
    /\ request.params[2] = "x"
    /\ reply.result.null /\ reply.warned

====
